---- MODULE Spec2Model ----
(***************************************************************************)
(* The preprocessing transformers of the notebook "Training and Prediction *)
(* with XGBoost": PositionalSelector, StripString, SimpleOneHotEncoder,    *)
(* and the feature pipeline built from them.                               *)
(*                                                                         *)
(* A Python value is a tagged record: a str is the sequence of its code    *)
(* points, an int is a number.  A two-dimensional input is a record        *)
(* [list, ncols, rows]: list tells a Python list of lists from a numpy     *)
(* ndarray, rows is the sequence of rows, ncols the number of columns      *)
(* (kept apart because an array of shape (0, m) has no row to read m       *)
(* from).  A call returns Ok(value) or Err(exception name).                *)
(***************************************************************************)
EXTENDS Integers, Sequences, FiniteSets

VARIABLES
    has_values,   \* SimpleOneHotEncoder: the attribute self.values exists
    values,       \* SimpleOneHotEncoder: self.values, one mapping per column
    positions,    \* PositionalSelector: self.positions
    p1_has,       \* pipeline p1: its encoder has self.values
    p1_values,    \* pipeline p1: self.values of its encoder
    p2_stats,     \* pipeline p2: what StandardScaler.fit keeps, per column
    op,           \* the last call made
    arg,          \* its argument X
    res,          \* what it returned or raised
    fit_arg,      \* history: <<X>> for the X of the last fit, <<>> before the first
    earlier,      \* history: <<column, value>> pairs seen by fits before the last
    nfit          \* history: how many times the selector's or trimmer's fit was called

vars == <<has_values, values, positions, p1_has, p1_values, p2_stats,
          op, arg, res, fit_arg, earlier, nfit>>

(***************************************************************************)
(* Values, arrays and results                                              *)
(***************************************************************************)
Str(s) == [t |-> "str", s |-> s, n |-> 0]
Num(n) == [t |-> "int", s |-> <<>>, n |-> n]
IsStr(v) == v.t = "str"

Arr(list, ncols, rows) == [list |-> list, ncols |-> ncols, rows |-> rows]
NoArr == Arr(FALSE, 0, <<>>)
Ok(a) == [ok |-> TRUE, err |-> "", val |-> a]
Err(e) == [ok |-> FALSE, err |-> e, val |-> NoArr]

Range(q) == {q[i] : i \in DOMAIN q}
Column(X, c) == [i \in 1..Len(X.rows) |-> X.rows[i][c]]
Cells(X) == {X.rows[i][j] : i \in 1..Len(X.rows), j \in 1..X.ncols}

RECURSIVE Flatten(_)
Flatten(qs) == IF qs = <<>> THEN <<>> ELSE Head(qs) \o Flatten(Tail(qs))

(* str(n) of a non-negative int: its decimal digits. *)
RECURSIVE Digits(_)
Digits(n) == IF n < 10 THEN <<48 + n>> ELSE Digits(n \div 10) \o <<48 + (n % 10)>>

(* np.array(X).  An ndarray is copied as it is.  A list of lists gets one  *)
(* common element type: when it holds both str and int, every int becomes  *)
(* the str of its decimal digits.                                          *)
np_array(X) ==
    IF X.list /\ (\E u \in Cells(X) : IsStr(u)) /\ (\E u \in Cells(X) : ~IsStr(u))
    THEN Arr(FALSE, X.ncols,
             [i \in 1..Len(X.rows) |->
                [j \in 1..X.ncols |->
                   IF IsStr(X.rows[i][j]) THEN X.rows[i][j]
                   ELSE Str(Digits(X.rows[i][j].n))]])
    ELSE Arr(FALSE, X.ncols, X.rows)

(* Python's order on str: lexicographic by code point. *)
StrLess(a, b) ==
    \E k \in 0..Len(a) :
        /\ k <= Len(b)
        /\ \A i \in 1..k : a[i] = b[i]
        /\ \/ k = Len(a) /\ k < Len(b)
           \/ k < Len(a) /\ k < Len(b) /\ a[k + 1] < b[k + 1]

Less(u, v) == IF IsStr(u) THEN StrLess(u.s, v.s) ELSE u.n < v.n

(* np.unique(Y): the distinct elements of Y, sorted. *)
RECURSIVE SortedSeq(_)
SortedSeq(S) ==
    IF S = {} THEN <<>>
    ELSE LET m == CHOOSE u \in S : \A v \in S \ {u} : Less(u, v)
         IN <<m>> \o SortedSeq(S \ {m})

np_unique(Y) == SortedSeq(Range(Y))

(***************************************************************************)
(* SimpleOneHotEncoder                                                     *)
(***************************************************************************)
(* Variant: numbers the rows of Y instead of its distinct values. *)
ColumnMappingByRow(Y) ==
    [v \in Range(Y) |-> (CHOOSE i \in 1..Len(Y) : Y[i] = v) - 1]

(* {v: i for i, v in enumerate(np.unique(Y))} *)
ColumnMapping(Y) ==
    LET u == np_unique(Y)
    IN [v \in Range(u) |-> (CHOOSE i \in 1..Len(u) : u[i] = v) - 1]

(* fit: self.values = [mapping of column c for c in range(X.shape[1])] *)
SimpleOneHotEncoder_fit(X) == [c \in 1..X.ncols |-> ColumnMapping(Column(X, c))]

(* Variant: the 1 one place to the right. *)
BlockShifted(mapping, x) ==
    [k \in 1..Cardinality(DOMAIN mapping) |->
        IF x \in DOMAIN mapping /\ mapping[x] = k THEN 1 ELSE 0]

(* The block of one column for one element: zeros, and a 1 at the index    *)
(* of x when x is a key of the column's mapping.                           *)
Block(mapping, x) ==
    [k \in 1..Cardinality(DOMAIN mapping) |->
        IF x \in DOMAIN mapping /\ mapping[x] = k - 1 THEN 1 ELSE 0]

(* Variant: looks every element up without asking whether it is a key. *)
TransformKeyError(has, vals, X0) ==
    LET X == np_array(X0)
    IN IF X.ncols = 0 THEN Err("ValueError")
       ELSE IF ~has THEN Err("AttributeError")
       ELSE IF X.ncols > Len(vals) THEN Err("IndexError")
       ELSE IF \E i \in 1..Len(X.rows), c \in 1..X.ncols : X.rows[i][c] \notin DOMAIN vals[c]
            THEN Err("KeyError")
       ELSE Ok(Arr(FALSE,
                   Len(Flatten([c \in 1..X.ncols |-> Block(vals[c], Str(<<>>))])),
                   [i \in 1..Len(X.rows) |->
                      Flatten([c \in 1..X.ncols |-> Block(vals[c], X.rows[i][c])])]))

(* Variant: fits on its own input when self.values is missing. *)
TransformLazyFit(has, vals, X0) ==
    LET X == np_array(X0)
        v == IF has THEN vals ELSE SimpleOneHotEncoder_fit(X)
    IN IF X.ncols = 0 THEN Err("ValueError")
       ELSE IF X.ncols > Len(v) THEN Err("IndexError")
       ELSE Ok(Arr(FALSE,
                   Len(Flatten([c \in 1..X.ncols |-> Block(v[c], Str(<<>>))])),
                   [i \in 1..Len(X.rows) |->
                      Flatten([c \in 1..X.ncols |-> Block(v[c], X.rows[i][c])])]))

(* transform: raises when self.values is missing or shorter than the       *)
(* columns of X, and when X has no column (nothing to concatenate).        *)
SimpleOneHotEncoder_transform(has, vals, X0) ==
    LET X == np_array(X0)
    IN IF X.ncols = 0 THEN Err("ValueError")
       ELSE IF ~has THEN Err("AttributeError")
       ELSE IF X.ncols > Len(vals) THEN Err("IndexError")
       ELSE Ok(Arr(FALSE,
                   Len(Flatten([c \in 1..X.ncols |-> Block(vals[c], Str(<<>>))])),
                   [i \in 1..Len(X.rows) |->
                      Flatten([c \in 1..X.ncols |-> Block(vals[c], X.rows[i][c])])]))

(***************************************************************************)
(* PositionalSelector and StripString                                      *)
(***************************************************************************)
(* The column a position indexes in an array of n columns, counted from 1; *)
(* a negative position counts from the end.                                *)
ColumnAt(p, n) == IF p < 0 THEN p + n + 1 ELSE p + 1

(* Variant: the columns in ascending order of position. *)
Sorted(pos) ==
    [k \in 1..Len(pos) |->
        CHOOSE p \in Range(pos) :
            Cardinality({j \in 1..Len(pos) : pos[j] < p}) < k
            /\ k <= Cardinality({j \in 1..Len(pos) : pos[j] <= p})]

SelectSorted(pos, X0) ==
    LET X == np_array(X0)
        sp == Sorted(pos)
    IN IF \E k \in 1..Len(pos) : ColumnAt(pos[k], X.ncols) \notin 1..X.ncols
       THEN Err("IndexError")
       ELSE Ok(Arr(FALSE, Len(pos),
                   [i \in 1..Len(X.rows) |->
                      [k \in 1..Len(pos) |-> X.rows[i][ColumnAt(sp[k], X.ncols)]]]))

(* transform: np.array(X)[:, self.positions] *)
PositionalSelector_transform(pos, X0) ==
    LET X == np_array(X0)
    IN IF \E k \in 1..Len(pos) : ColumnAt(pos[k], X.ncols) \notin 1..X.ncols
       THEN Err("IndexError")
       ELSE Ok(Arr(FALSE, Len(pos),
                   [i \in 1..Len(X.rows) |->
                      [k \in 1..Len(pos) |-> X.rows[i][ColumnAt(pos[k], X.ncols)]]]))

(* The code points str.strip() removes (those str.isspace() accepts). *)
Whitespace ==
    {9, 10, 11, 12, 13, 28, 29, 30, 31, 32, 133, 160, 5760, 8232, 8233, 8239, 8287, 12288}
        \cup (8192..8202)

RECURSIVE LStrip(_)
LStrip(s) == IF s # <<>> /\ Head(s) \in Whitespace THEN LStrip(Tail(s)) ELSE s

RECURSIVE RStrip(_)
RStrip(s) ==
    IF s # <<>> /\ s[Len(s)] \in Whitespace THEN RStrip(SubSeq(s, 1, Len(s) - 1)) ELSE s

(* Variant: str.lstrip *)
StripLeft(s) == LStrip(s)

(* str.strip *)
Strip(s) == RStrip(LStrip(s))

(* Variant: no trimming. *)
StripNothing(X0) ==
    LET X == np_array(X0)
    IN IF Len(X.rows) * X.ncols = 0 THEN Err("ValueError")
       ELSE IF \E u \in Cells(X) : ~IsStr(u) THEN Err("TypeError")
       ELSE Ok(X)

(* transform: np.vectorize(str.strip)(np.array(X)).  np.vectorize refuses  *)
(* an input of size 0 (it has no element to learn the output type from),   *)
(* and str.strip refuses an element that is no str.                        *)
StripString_transform(X0) ==
    LET X == np_array(X0)
    IN IF Len(X.rows) * X.ncols = 0 THEN Err("ValueError")
       ELSE IF \E u \in Cells(X) : ~IsStr(u) THEN Err("TypeError")
       ELSE Ok(Arr(FALSE, X.ncols,
                   [i \in 1..Len(X.rows) |->
                      [j \in 1..X.ncols |-> Str(Strip(X.rows[i][j].s))]]))

(***************************************************************************)
(* Inputs of the model                                                     *)
(***************************************************************************)
MaxFitCells == 4
MaxXCells == 2

Shapes(m) == {s \in (0..m) \X (0..m) : s[1] * s[2] <= m}
Ndarrays(V, m) ==
    UNION {{Arr(FALSE, s[2], rows) : rows \in [1..s[1] -> [1..s[2] -> V]]} : s \in Shapes(m)}
Lists(V, m) == {Arr(TRUE, X.ncols, X.rows) : X \in {Y \in Ndarrays(V, m) : Len(Y.rows) > 0}}

(* The categories the encoder is run on. *)
Categories == {Str(<<97>>), Str(<<98>>)}
FitInputs == Ndarrays(Categories, MaxFitCells)
TransformInputs == Ndarrays(Categories, MaxXCells) \cup Lists(Categories, MaxXCells)

(***************************************************************************)
(* The encoder as a state machine                                          *)
(***************************************************************************)
Untouched == <<positions, p1_has, p1_values, p2_stats, nfit>>

InitEnc ==
    /\ has_values = FALSE
    /\ values = <<>>
    /\ positions = <<>>
    /\ p1_has = FALSE
    /\ p1_values = <<>>
    /\ p2_stats = <<>>
    /\ op = "new"
    /\ arg = NoArr
    /\ res = Ok(NoArr)
    /\ fit_arg = <<>>
    /\ earlier = {}
    /\ nfit = 0

(* Variant: fit adds the new values to the mappings it already has. *)
EncFitAccumulate(X) ==
    /\ has_values' = TRUE
    /\ values' =
         LET new == SimpleOneHotEncoder_fit(X)
         IN [c \in 1..X.ncols |->
               IF has_values /\ c <= Len(values)
               THEN ColumnMapping(SortedSeq(DOMAIN values[c] \cup DOMAIN new[c]))
               ELSE new[c]]
    /\ op' = "fit"
    /\ arg' = X
    /\ res' = Ok(NoArr)
    /\ UNCHANGED Untouched

(* enc.fit(X): returns self *)
EncFit(X) ==
    /\ has_values' = TRUE
    /\ values' = SimpleOneHotEncoder_fit(X)
    /\ op' = "fit"
    /\ arg' = X
    /\ res' = Ok(NoArr)
    /\ UNCHANGED Untouched

(* Variant: transform adds the values it meets to the mappings. *)
EncTransformLearning(X) ==
    /\ res' = SimpleOneHotEncoder_transform(has_values, values, X)
    /\ op' = "transform"
    /\ arg' = X
    /\ values' =
         IF has_values /\ 0 < X.ncols /\ X.ncols <= Len(values)
         THEN [c \in 1..Len(values) |->
                 IF c <= X.ncols
                 THEN ColumnMapping(SortedSeq(DOMAIN values[c] \cup Range(Column(X, c))))
                 ELSE values[c]]
         ELSE values
    /\ UNCHANGED has_values
    /\ UNCHANGED Untouched

(* enc.transform(X) *)
EncTransform(X) ==
    /\ res' = SimpleOneHotEncoder_transform(has_values, values, X)
    /\ op' = "transform"
    /\ arg' = X
    /\ UNCHANGED <<has_values, values>>
    /\ UNCHANGED Untouched

NextEnc ==
    \/ \E X \in FitInputs : EncFit(X) /\ fit_arg' = <<X>> /\ UNCHANGED earlier
    \/ \E X \in TransformInputs : EncTransform(X) /\ UNCHANGED <<fit_arg, earlier>>

SpecEnc == InitEnc /\ [][NextEnc]_vars

(* Refitting, observed on small inputs with the history of what the fits   *)
(* before the last one saw.                                                *)
MaxRefitCells == 2

SeenPairs(X) == {<<c, X.rows[i][c]>> : i \in 1..Len(X.rows), c \in 1..X.ncols}
RefitInputs == Ndarrays(Categories, MaxRefitCells)
RefitRows == {X \in Ndarrays(Categories, MaxRefitCells) : Len(X.rows) = 1}

NextRefit ==
    \/ \E X \in RefitInputs :
          /\ EncFit(X)
          /\ fit_arg' = <<X>>
          /\ earlier' = earlier \cup (IF fit_arg = <<>> THEN {} ELSE SeenPairs(fit_arg[1]))
    \/ \E X \in RefitRows : EncTransform(X) /\ UNCHANGED <<fit_arg, earlier>>

SpecRefit == InitEnc /\ [][NextRefit]_vars

(***************************************************************************)
(* Properties of SimpleOneHotEncoder                                       *)
(***************************************************************************)
(* Where the block of column c starts in an output row: the summed sizes   *)
(* of the mappings of the columns before it.                               *)
RECURSIVE Width(_, _)
Width(vals, c) == IF c = 0 THEN 0 ELSE Width(vals, c - 1) + Cardinality(DOMAIN vals[c])

SeenInFit(c, x) ==
    /\ fit_arg # <<>>
    /\ c <= fit_arg[1].ncols
    /\ x \in Range(Column(fit_arg[1], c))

Transformed == op = "transform" /\ res.ok

(* The block of column c in output row i is the one-hot vector of index j  *)
(* (all zeros when j = -1).                                                *)
BlockIs(i, c, j) ==
    \A k \in 1..Cardinality(DOMAIN values[c]) :
        res.val.rows[i][Width(values, c - 1) + k] = (IF k - 1 = j THEN 1 ELSE 0)

(* C1: after a fit, transform gives, for every row i and every column c    *)
(* whose value was seen in column c of the fit data, a block with exactly  *)
(* one 1, at the index the fitted mapping assigns to the value, and 0      *)
(* elsewhere; every output entry is 0 or 1.                                *)
C1_OneHotOfSeenValue ==
    Transformed =>
        /\ Len(res.val.rows) = Len(arg.rows)
        /\ res.val.ncols = Width(values, arg.ncols)
        /\ \A i \in 1..Len(arg.rows) :
              /\ Len(res.val.rows[i]) = res.val.ncols
              /\ \A k \in 1..res.val.ncols : res.val.rows[i][k] \in {0, 1}
              /\ \A c \in 1..arg.ncols :
                    SeenInFit(c, arg.rows[i][c]) =>
                        /\ arg.rows[i][c] \in DOMAIN values[c]
                        /\ BlockIs(i, c, values[c][arg.rows[i][c]])

C1_Witness ==
    /\ Transformed
    /\ arg.ncols = 2
    /\ Len(arg.rows) > 0
    /\ Cardinality(DOMAIN values[1]) = 2
    /\ SeenInFit(2, arg.rows[1][2])
    /\ Cardinality(DOMAIN values[2]) = 2
    /\ values[2][arg.rows[1][2]] = 1
    /\ res.val.rows[1][4] = 1

(* C2: after a fit, a value not seen in its column of the fit data raises  *)
(* no error: its block is all zeros in that row, and the blocks of the     *)
(* row's other columns are encoded as usual.  (The columns of the input    *)
(* are columns of the fit data.)                                           *)
Unseen(i, c) == ~SeenInFit(c, arg.rows[i][c])

C2_UnseenGivesZeroBlock ==
    (/\ op = "transform"
     /\ fit_arg # <<>>
     /\ arg.ncols <= fit_arg[1].ncols
     /\ \E i \in 1..Len(arg.rows), c \in 1..arg.ncols : Unseen(i, c)) =>
        /\ res.ok
        /\ \A i \in 1..Len(arg.rows), c \in 1..arg.ncols :
              IF Unseen(i, c) THEN BlockIs(i, c, -1)
              ELSE BlockIs(i, c, values[c][arg.rows[i][c]])

C2_Witness ==
    /\ Transformed
    /\ arg.ncols = 2
    /\ Len(arg.rows) > 0
    /\ res.val.ncols = 3
    /\ Unseen(1, 1)
    /\ Cardinality(DOMAIN values[1]) = 1
    /\ res.val.rows[1][1] = 0
    /\ ~Unseen(1, 2)
    /\ res.val.rows[1][2] + res.val.rows[1][3] = 1

(* C3: fit builds one mapping per column of the fit data, each a bijection *)
(* between the distinct values of its column and 0..k-1.                   *)
C3_FitBijection ==
    fit_arg # <<>> =>
        /\ has_values
        /\ Len(values) = fit_arg[1].ncols
        /\ \A c \in 1..Len(values) :
              LET distinct == Range(Column(fit_arg[1], c))
                  k == Cardinality(distinct)
              IN /\ DOMAIN values[c] = distinct
                 /\ {values[c][v] : v \in distinct} = 0..(k - 1)
                 /\ \A u, v \in distinct : values[c][u] = values[c][v] => u = v

C3_Witness ==
    /\ op = "fit"
    /\ Len(values) = 1
    /\ Len(fit_arg[1].rows) = 3
    /\ fit_arg[1].rows[1] = fit_arg[1].rows[3]
    /\ fit_arg[1].rows[1] # fit_arg[1].rows[2]
    /\ Cardinality(DOMAIN values[1]) = 2

(* C4: once fit has returned, a transform leaves the fitted mappings as    *)
(* they are, and what it returns is decided by the fit data and its own    *)
(* input alone, whatever was transformed before it.                        *)
C4_StatelessAfterFit ==
    [][(op' = "transform" /\ fit_arg # <<>>) =>
         /\ values' = values
         /\ has_values' = has_values
         /\ res' = SimpleOneHotEncoder_transform(
                       TRUE, SimpleOneHotEncoder_fit(fit_arg[1]), arg')]_vars

C4_Witness ==
    /\ Transformed
    /\ Len(arg.rows) > 0
    /\ \E c \in 1..arg.ncols : Unseen(1, c)
    /\ values = SimpleOneHotEncoder_fit(fit_arg[1])

(* C5: a transform returns a matrix only if a fit completed before it; a   *)
(* transform before the first fit raises.                                  *)
C5_FitBeforeTransform ==
    op = "transform" => IF fit_arg = <<>> THEN ~res.ok ELSE (res.ok => has_values)

C5_Witness ==
    /\ op = "transform"
    /\ fit_arg = <<>>
    /\ arg.ncols > 0
    /\ Len(arg.rows) > 0
    /\ res = Err("AttributeError")

(* C9: after any sequence of fits the stored mappings are those of the     *)
(* last fit alone, so a value seen only by an earlier fit is transformed   *)
(* as an unseen one.                                                       *)
C9_RefitReplaces ==
    fit_arg # <<>> =>
        /\ values = SimpleOneHotEncoder_fit(fit_arg[1])
        /\ Transformed =>
              \A c \in 1..arg.ncols :
                  (<<c, arg.rows[1][c]>> \in earlier /\ Unseen(1, c)) =>
                      /\ arg.rows[1][c] \notin DOMAIN values[c]
                      /\ BlockIs(1, c, -1)

C9_Witness ==
    /\ Transformed
    /\ \E c \in 1..arg.ncols :
          /\ <<c, arg.rows[1][c]>> \in earlier
          /\ Unseen(1, c)
          /\ Cardinality(DOMAIN values[c]) = 1
          /\ BlockIs(1, c, -1)

(***************************************************************************)
(* PositionalSelector and StripString as a state machine                   *)
(***************************************************************************)
MaxPreCells == 2
MaxFits == 2

(* What the selector is given: str and int values, as in raw_features and  *)
(* instances.                                                              *)
Mixed == {Num(42), Str(<<97>>), Str(<<32, 98>>)}
(* What the trimmer is given: " a b\t", "  ", "a", and an int.             *)
Untrimmed == {Str(<<32, 97, 32, 98, 9>>), Str(<<32, 32>>), Str(<<97>>), Num(7)}
SelInputs == Ndarrays(Mixed, MaxPreCells) \cup Lists(Mixed, MaxPreCells)
StripInputs == Ndarrays(Untrimmed, MaxPreCells) \cup Lists(Untrimmed, MaxPreCells)
PositionChoices == {<<0>>, <<1, 0>>, <<0, 0>>, <<-1>>, <<2, 0>>}

InitPre ==
    /\ has_values = FALSE
    /\ values = <<>>
    /\ positions \in PositionChoices
    /\ p1_has = FALSE
    /\ p1_values = <<>>
    /\ p2_stats = <<>>
    /\ op = "new"
    /\ arg = NoArr
    /\ res = Ok(NoArr)
    /\ fit_arg = <<>>
    /\ earlier = {}
    /\ nfit = 0

PreUntouched == <<has_values, values, p1_has, p1_values, p2_stats, fit_arg, earlier>>

(* PositionalSelector.fit and StripString.fit: return self *)
SelFit(X) ==
    /\ op' = "sel_fit"
    /\ arg' = X
    /\ res' = Ok(NoArr)
    /\ UNCHANGED positions
    /\ UNCHANGED PreUntouched

StripFit(X) ==
    /\ op' = "strip_fit"
    /\ arg' = X
    /\ res' = Ok(NoArr)
    /\ UNCHANGED positions
    /\ UNCHANGED PreUntouched

SelTransform(X) ==
    /\ op' = "sel_transform"
    /\ arg' = X
    /\ res' = PositionalSelector_transform(positions, X)
    /\ UNCHANGED positions
    /\ UNCHANGED PreUntouched

StripTransform(X) ==
    /\ op' = "strip_transform"
    /\ arg' = X
    /\ res' = StripString_transform(X)
    /\ UNCHANGED positions
    /\ UNCHANGED PreUntouched

NextPre ==
    \/ \E X \in SelInputs : nfit < MaxFits /\ SelFit(X) /\ nfit' = nfit + 1
    \/ \E X \in SelInputs : SelTransform(X) /\ UNCHANGED nfit
    \/ \E X \in StripInputs : nfit < MaxFits /\ StripFit(X) /\ nfit' = nfit + 1
    \/ \E X \in StripInputs : StripTransform(X) /\ UNCHANGED nfit

SpecPre == InitPre /\ [][NextPre]_vars

(***************************************************************************)
(* Properties of PositionalSelector and StripString                        *)
(***************************************************************************)
InRange(X) == \A k \in 1..Len(positions) : ColumnAt(positions[k], X.ncols) \in 1..X.ncols

(* C6 as claimed: transform returns, for every row, the columns at the     *)
(* configured positions, in the order given, as many rows as the input     *)
(* has, the values unchanged, whatever fit calls were made.                *)
C6_ValuesUnchanged ==
    (op = "sel_transform" /\ InRange(arg)) =>
        /\ res.ok
        /\ Len(res.val.rows) = Len(arg.rows)
        /\ \A i \in 1..Len(arg.rows) :
              res.val.rows[i] =
                  [k \in 1..Len(positions) |-> arg.rows[i][ColumnAt(positions[k], arg.ncols)]]

(* C6 as amended: the same, with the values as np.array(X) holds them:     *)
(* unchanged for an ndarray and for a list of one element type, and for a  *)
(* list that mixes str and int, the ints as their decimal strings.         *)
C6_SelectsColumnsOfArray ==
    (op = "sel_transform" /\ InRange(arg)) =>
        /\ res.ok
        /\ Len(res.val.rows) = Len(arg.rows)
        /\ res.val.ncols = Len(positions)
        /\ \A i \in 1..Len(arg.rows) : \A k \in 1..Len(positions) :
              LET x == arg.rows[i][ColumnAt(positions[k], arg.ncols)]
              IN res.val.rows[i][k] =
                     (IF arg.list /\ ~IsStr(x) /\ (\E u \in Cells(arg) : IsStr(u))
                      THEN Str(Digits(x.n)) ELSE x)

C6_Witness ==
    /\ op = "sel_transform"
    /\ positions = <<1, 0>>
    /\ nfit = 2
    /\ arg.list
    /\ res.ok
    /\ Len(arg.rows) > 0
    /\ arg.rows[1] = <<Num(42), Str(<<32, 98>>)>>
    /\ res.val.rows[1] = <<Str(<<32, 98>>), Str(<<52, 50>>)>>

AllStr(X) == \A u \in Cells(X) : IsStr(u)

(* C7 as claimed: transform trims element-wise: the output has the shape   *)
(* of the input and each element is the input element without its leading *)
(* and trailing whitespace.                                                *)
C7_TrimsEveryInput ==
    (op = "strip_transform" /\ AllStr(arg)) =>
        /\ res.ok
        /\ Len(res.val.rows) = Len(arg.rows)
        /\ res.val.ncols = arg.ncols
        /\ \A i \in 1..Len(arg.rows) : \A j \in 1..arg.ncols :
              res.val.rows[i][j] = Str(Strip(arg.rows[i][j].s))

(* C7 as amended: the same for an input that has at least one element; an  *)
(* input of size 0 raises ValueError.                                      *)
C7_TrimsElementwise ==
    (op = "strip_transform" /\ AllStr(arg)) =>
        IF Len(arg.rows) * arg.ncols = 0 THEN res = Err("ValueError")
        ELSE /\ res.ok
             /\ Len(res.val.rows) = Len(arg.rows)
             /\ res.val.ncols = arg.ncols
             /\ \A i \in 1..Len(arg.rows) : \A j \in 1..arg.ncols :
                   LET s == arg.rows[i][j].s
                       t == res.val.rows[i][j].s
                   IN /\ IsStr(res.val.rows[i][j])
                      /\ \E a \in 0..Len(s) : \E b \in a..Len(s) :
                            /\ t = SubSeq(s, a + 1, b)
                            /\ \A k \in (1..a) \cup ((b + 1)..Len(s)) : s[k] \in Whitespace
                            /\ t # <<>> => (t[1] \notin Whitespace /\ t[Len(t)] \notin Whitespace)

C7_Witness ==
    /\ op = "strip_transform"
    /\ res.ok
    /\ arg.ncols = 2
    /\ arg.rows[1] = <<Str(<<32, 97, 32, 98, 9>>), Str(<<32, 32>>)>>
    /\ res.val.rows[1] = <<Str(<<97, 32, 98>>), Str(<<>>)>>

(***************************************************************************)
(* The pipeline                                                            *)
(***************************************************************************)
(* The column labels of the census data files. *)
COLUMNS ==
    <<"age", "workclass", "fnlwgt", "education", "education-num", "marital-status",
      "occupation", "relationship", "race", "sex", "capital-gain", "capital-loss",
      "hours-per-week", "native-country", "income-level">>

(* raw_training_data.drop('income-level', axis=1): the labels of the       *)
(* columns of raw_features.                                                *)
RECURSIVE Drop(_, _)
Drop(labels, name) ==
    IF labels = <<>> THEN <<>>
    ELSE IF Head(labels) = name THEN Drop(Tail(labels), name)
    ELSE <<Head(labels)>> \o Drop(Tail(labels), name)

feature_labels == Drop(COLUMNS, "income-level")

numerical_indices == <<0, 12>>

(* Variant: the features the comment above the indices lists. *)
categorical_indices_without_education == <<1, 5, 7>>

categorical_indices == <<1, 3, 5, 7>>

(* A float64 of the feature matrix: a plain number x (stats all 0), or the *)
(* standardized x, (x - mean) / scale, kept as x and the statistics of its *)
(* training column that decide mean and scale.                             *)
Float(x) == [x |-> x, n |-> 0, sum |-> 0, sumsq |-> 0]
Scaled(x, st) == [x |-> x, n |-> st.n, sum |-> st.sum, sumsq |-> st.sumsq]

(* float(v): an int as it is, a str of decimal digits parsed. *)
RECURSIVE ParseInt(_)
ParseInt(s) ==
    IF s = <<>> THEN 0 ELSE 10 * ParseInt(SubSeq(s, 1, Len(s) - 1)) + (s[Len(s)] - 48)

IsNumber(v) == IF IsStr(v) THEN v.s # <<>> /\ \A k \in 1..Len(v.s) : v.s[k] \in 48..57 ELSE TRUE
ToNumber(v) == IF IsStr(v) THEN ParseInt(v.s) ELSE v.n

RECURSIVE SumSeq(_)
SumSeq(q) == IF q = <<>> THEN 0 ELSE Head(q) + SumSeq(Tail(q))

(* StandardScaler.fit: per column, what decides mean_ and scale_. *)
StandardScaler_fit(X) ==
    [c \in 1..X.ncols |->
        LET col == [i \in 1..Len(X.rows) |-> ToNumber(X.rows[i][c])]
        IN [n |-> Len(col), sum |-> SumSeq(col),
            sumsq |-> SumSeq([i \in 1..Len(col) |-> col[i] * col[i]])]]

StandardScaler_transform(stats, X) ==
    IF stats = <<>> THEN Err("NotFittedError")
    ELSE IF Len(X.rows) = 0 \/ X.ncols # Len(stats) \/ \E u \in Cells(X) : ~IsNumber(u)
         THEN Err("ValueError")
    ELSE Ok(Arr(FALSE, X.ncols,
                [i \in 1..Len(X.rows) |->
                   [c \in 1..X.ncols |-> Scaled(ToNumber(X.rows[i][c]), stats[c])]]))

(* p1 up to its last step: PositionalSelector(categorical_indices), StripString() *)
p1_prepare(X) ==
    LET sel == PositionalSelector_transform(categorical_indices, X)
    IN IF sel.ok THEN StripString_transform(sel.val) ELSE sel

(* p1.transform *)
p1_transform(has, vals, X) ==
    LET pre == p1_prepare(X)
    IN IF pre.ok THEN SimpleOneHotEncoder_transform(has, vals, pre.val) ELSE pre

(* p2.transform: PositionalSelector(numerical_indices), StandardScaler() *)
p2_transform(stats, X) ==
    LET sel == PositionalSelector_transform(numerical_indices, X)
    IN IF sel.ok THEN StandardScaler_transform(stats, sel.val) ELSE sel

(* FeatureUnion.transform: the results of p1 and p2 side by side, as floats *)
pipeline_transform(has, vals, stats, X) ==
    LET r1 == p1_transform(has, vals, X)
        r2 == p2_transform(stats, X)
    IN IF ~r1.ok THEN r1
       ELSE IF ~r2.ok THEN r2
       ELSE Ok(Arr(FALSE, r1.val.ncols + r2.val.ncols,
                   [i \in 1..Len(r1.val.rows) |->
                      [k \in 1..r1.val.ncols |-> Float(r1.val.rows[i][k])]
                          \o r2.val.rows[i]]))

MaxPipeRows == 2

(* One row of features: age, workclass, education and the rest, where      *)
(* other varies every column the pipeline is not given.                    *)
FeatureRow(age, workclass, education, other) ==
    <<Num(age), Str(workclass), Num(77516 + other), Str(education), Num(13 + other),
      Str(<<32, 109>>), Str(<<32, 111, 48 + other>>), Str(<<32, 114>>),
      Str(<<32, 119, 48 + other>>), Str(<<32, 115, 48 + other>>), Num(2174 + other),
      Num(other), Num(40), Str(<<32, 117, 48 + other>>)>>

(* Training rows: workclass " a" or "b", education " x" or "y ". *)
TrainingRows ==
    {FeatureRow(5, <<32, 97>>, <<32, 120>>, 0), FeatureRow(42, <<98>>, <<121, 32>>, 1),
     FeatureRow(42, <<32, 97>>, <<121, 32>>, 0), FeatureRow(5, <<98>>, <<32, 120>>, 1)}

(* Rows to predict: also workclass "a", " a ", "b " and the unseen "c",    *)
(* and education "y".                                                      *)
InstanceRows ==
    {FeatureRow(p[1], w, p[2], o) :
        p \in {<<5, <<32, 120>>>>, <<42, <<121>>>>},
        w \in {<<32, 97>>, <<97>>, <<32, 97, 32>>, <<98, 32>>, <<99>>},
        o \in {0, 1}}

(* raw_features: an ndarray of training rows (none, when the file is empty) *)
PipeFitInputs ==
    UNION {{Arr(FALSE, Len(feature_labels), rows) : rows \in [1..n -> TrainingRows]} :
             n \in 0..MaxPipeRows}

(* instances: a list of rows, or an ndarray of them *)
PipeTransformInputs ==
    {Arr(list, Len(feature_labels), <<row>>) : list \in BOOLEAN, row \in InstanceRows}
        \cup {Arr(FALSE, Len(feature_labels), <<>>)}

InitPipe ==
    /\ has_values = FALSE
    /\ values = <<>>
    /\ positions = <<>>
    /\ p1_has = FALSE
    /\ p1_values = <<>>
    /\ p2_stats = <<>>
    /\ op = "new"
    /\ arg = NoArr
    /\ res = Ok(NoArr)
    /\ fit_arg = <<>>
    /\ earlier = {}
    /\ nfit = 0

PipeUntouched == <<has_values, values, positions, earlier, nfit>>

(* train_features = pipeline.fit_transform(raw_features): p1 is fitted and *)
(* applied, then p2; a step that raises leaves the later ones unfitted.    *)
PipelineFitTransform(X) ==
    LET pre == p1_prepare(X)
        vals == SimpleOneHotEncoder_fit(pre.val)
        r1 == SimpleOneHotEncoder_transform(TRUE, vals, pre.val)
        sel == PositionalSelector_transform(numerical_indices, X)
        stats == StandardScaler_fit(sel.val)
        r2 == StandardScaler_transform(stats, sel.val)
    IN /\ op' = "fit_transform"
       /\ arg' = X
       /\ IF ~pre.ok
          THEN res' = pre /\ UNCHANGED <<p1_has, p1_values, p2_stats, fit_arg>>
          ELSE /\ p1_has' = TRUE
               /\ p1_values' = vals
               /\ IF ~r1.ok \/ ~sel.ok
                  THEN /\ res' = (IF r1.ok THEN sel ELSE r1)
                       /\ UNCHANGED <<p2_stats, fit_arg>>
                  ELSE /\ p2_stats' = stats
                       /\ res' = pipeline_transform(TRUE, vals, stats, X)
                       /\ fit_arg' = IF r2.ok THEN <<X>> ELSE fit_arg
       /\ UNCHANGED PipeUntouched

(* processed_instances = pipeline.transform(instances) *)
PipelineTransform(X) ==
    /\ op' = "transform"
    /\ arg' = X
    /\ res' = pipeline_transform(p1_has, p1_values, p2_stats, X)
    /\ UNCHANGED <<p1_has, p1_values, p2_stats, fit_arg>>
    /\ UNCHANGED PipeUntouched

NextPipe ==
    \/ \E X \in PipeFitInputs : PipelineFitTransform(X)
    \/ \E X \in PipeTransformInputs : PipelineTransform(X)

SpecPipe == InitPipe /\ [][NextPipe]_vars

(***************************************************************************)
(* Properties of the pipeline                                              *)
(***************************************************************************)
(* The features the notebook says the pipeline uses. *)
CategoricalFeatures == <<"workclass", "education", "marital-status", "relationship">>
NumericalFeatures == <<"age", "hours-per-week">>

ColumnNamed(name) == CHOOSE k \in 1..Len(feature_labels) : feature_labels[k] = name
Named(row, name) == row[ColumnNamed(name)]

PipelineReturned == op \in {"fit_transform", "transform"} /\ res.ok

(* The one-hot block of a trimmed category, as floats. *)
FloatBlock(mapping, x) ==
    [j \in 1..Cardinality(DOMAIN mapping) |->
        Float(IF x \in DOMAIN mapping /\ mapping[x] = j - 1 THEN 1 ELSE 0)]

Trimmed(v) == Str(Strip(v.s))

SameTrimmed(u, v) == Strip(u.s) = Strip(v.s)

(* Where the block of categorical feature k starts in a row of the result. *)
BlockOf(row, k) ==
    SubSeq(row, Width(p1_values, k - 1) + 1, Width(p1_values, k))

(* C10: the categorical branch trims at fit and at transform: a value to   *)
(* predict that differs from a training value only by leading or trailing  *)
(* whitespace gets the one-hot encoding of that training value, and the    *)
(* fitted mappings hold trimmed values only.                               *)
C10_TrimmedAtFitAndTransform ==
    (fit_arg # <<>> /\ op \in {"fit_transform", "transform"}) =>
        /\ \A k \in 1..Len(p1_values) : \A v \in DOMAIN p1_values[k] :
              v.s = <<>> \/ (v.s[1] \notin Whitespace /\ v.s[Len(v.s)] \notin Whitespace)
        /\ \A i \in 1..Len(arg.rows) : \A j \in 1..Len(fit_arg[1].rows) :
              \A k \in 1..Len(categorical_indices) :
                  LET x == arg.rows[i][categorical_indices[k] + 1]
                      t == fit_arg[1].rows[j][categorical_indices[k] + 1]
                      trained == pipeline_transform(p1_has, p1_values, p2_stats,
                                                    Arr(FALSE, arg.ncols, <<fit_arg[1].rows[j]>>))
                  IN SameTrimmed(x, t) =>
                        /\ res.ok
                        /\ trained.ok
                        /\ BlockOf(res.val.rows[i], k) = BlockOf(trained.val.rows[1], k)
                        /\ \E b \in 1..Len(BlockOf(res.val.rows[i], k)) :
                              BlockOf(res.val.rows[i], k)[b] = Float(1)

C10_Witness ==
    /\ op = "transform"
    /\ res.ok
    /\ Len(fit_arg[1].rows) = 2
    /\ Cardinality(DOMAIN p1_values[1]) = 2
    /\ Named(arg.rows[1], "workclass") = Str(<<32, 97, 32>>)
    /\ \E j \in 1..2 : Named(fit_arg[1].rows[j], "workclass") = Str(<<32, 97>>)
    /\ res.val.rows[1][1] = Float(1)
    /\ Str(<<97>>) \in DOMAIN p1_values[1]

====
